---- MODULE Spec2Model ----
(***************************************************************************)
(* Model of the filing-document normalizer of convert_filing_json.py:     *)
(* transform_sections, transform_parts and transform_document, applied to  *)
(* JSON values (Spec), and its main (SpecMain); of the per-file drivers    *)
(* remove_gemini_fields.py, replace_part_names.py and fix_part_names.py    *)
(* (SpecDrivers) and their transforms (SpecFields); of the classification  *)
(* pass of gemini_processor.py (SpecGemini); and of run_complete_pipeline  *)
(* of proto-2/pipeline_runner.py (SpecPipeline).                           *)
(*                                                                         *)
(* A JSON value is a tagged record:                                        *)
(*   [t |-> "null"]                      None / null                       *)
(*   [t |-> "num",  v |-> n]             a number                          *)
(*   [t |-> "str",  v |-> s]             a string                          *)
(*   [t |-> "list", v |-> <<x1,...>>]    a list                            *)
(*   [t |-> "dict", v |-> <<e1,...>>]    a mapping: the entries            *)
(*                                       [k |-> key, v |-> value] in       *)
(*                                       insertion order, keys distinct    *)
(*   [t |-> "raise"]                     the call raised an exception      *)
(* A call is modelled by the pair [ret |-> the value returned (or raise),  *)
(* arg |-> the caller's argument object as the call leaves it].            *)
(***************************************************************************)
EXTENDS Integers, Sequences, FiniteSets, TLC

VARIABLES fn, arg, pc, ret, arg_after, ret2

\* convert_filing_json.main: the lines of the input file, the value loaded,
\* the value to be written and the content of the output file
VARIABLES text, data, transformed, out_file

\* the per-file drivers: whether the folder exists, the content of each JSON
\* file of the folder, the position of the loop, the calls of
\* process_json_file made and the success / failure lines printed
VARIABLES folder, files, next_file, runs, reports

\* gemini_processor.process_company_file: the company's data in memory (its
\* years, their parts, their sections), the position of the loops in the
\* order of visit, the sections visited, the number of calls of the model made
\* for the section at hand and what the last one gave, the value
\* process_section returned and the state of the output file
VARIABLES company_data, at, visited, calls, response, gemini_result,
          output_file

\* pipeline_runner.run_complete_pipeline: its keyword arguments, the steps
\* called so far, PipelineRunner.steps_completed, PipelineRunner.errors and the
\* value returned
VARIABLES options, steps_run, steps_completed, errors, returned

callvars == <<fn, arg, ret, arg_after, ret2>>

mainvars == <<text, data, transformed, out_file>>

drivervars == <<folder, files, next_file, runs, reports>>

geminivars ==
  <<company_data, at, visited, calls, response, gemini_result, output_file>>

pipelinevars == <<options, steps_run, steps_completed, errors, returned>>

vars == <<pc, callvars, mainvars, drivervars, geminivars, pipelinevars>>

(* ---------------------------- bounds ----------------------------------- *)

\* the longest 'sections' list or mapping, and the longest 'parts' list or
\* mapping, among the inputs

MaxSections == 3

MaxParts == 2

(* ---------------------------- JSON values ------------------------------ *)

Null == [t |-> "null"]

Raise == [t |-> "raise"]

Num(n) == [t |-> "num", v |-> n]

Str(s) == [t |-> "str", v |-> s]

List(q) == [t |-> "list", v |-> q]

Dict(q) == [t |-> "dict", v |-> q]

Entry(key, value) == [k |-> key, v |-> value]

\* isinstance(x, list)
IsList(x) == x.t = "list"

\* isinstance(x, dict)
IsDict(x) == x.t = "dict"

\* Python truthiness, as used by `not x` and `x or y`
Truthy(x) ==
  CASE x.t = "null" -> FALSE
    [] x.t = "num"  -> x.v # 0
    [] x.t = "str"  -> x.v # ""
    [] x.t = "list" -> Len(x.v) > 0
    [] x.t = "dict" -> Len(x.v) > 0
    [] OTHER        -> FALSE

\* key in d
HasKey(d, key) == \E i \in 1..Len(d.v) : d.v[i].k = key

\* the keys of a mapping
Keys(d) == {d.v[i].k : i \in 1..Len(d.v)}

\* d[key] for a key that is present
Lookup(d, key) == d.v[CHOOSE i \in 1..Len(d.v) : d.v[i].k = key].v

\* x.get(key): AttributeError on anything that is not a mapping, None when absent
get(x, key) ==
  IF ~IsDict(x) THEN Raise
  ELSE IF HasKey(x, key) THEN Lookup(x, key)
  ELSE Null

\* d[key] = value on a dict: an existing key keeps its position, a new one is appended
setitem(d, key, value) ==
  IF HasKey(d, key)
    THEN Dict([i \in 1..Len(d.v) |->
                 IF d.v[i].k = key THEN Entry(key, value) ELSE d.v[i]])
    ELSE Dict(Append(d.v, Entry(key, value)))

\* as dict_without, with {} in place of the copy
dict_cleared(d, key) == Dict(<<>>)

\* {k: v for k, v in d.items() if k != key}
dict_without(d, key) ==
  LET Keep(e) == e.k # key
  IN  Dict(SelectSeq(d.v, Keep))

\* f"section_{idx}"
section_name(idx) == "section_" \o ToString(idx)

\* Python ==: lists compare element by element, mappings regardless of order
RECURSIVE PyEq(_, _)
PyEq(a, b) ==
  IF a.t # b.t THEN FALSE
  ELSE CASE a.t = "list" ->
              /\ Len(a.v) = Len(b.v)
              /\ \A i \in 1..Len(a.v) : PyEq(a.v[i], b.v[i])
         [] a.t = "dict" ->
              /\ Len(a.v) = Len(b.v)
              /\ \A i \in 1..Len(a.v) :
                   /\ HasKey(b, a.v[i].k)
                   /\ PyEq(a.v[i].v, Lookup(b, a.v[i].k))
         [] a.t \in {"num", "str"} -> a.v = b.v
         [] OTHER -> TRUE

(* ------------------------ loops over items ----------------------------- *)

\* as Appended, with out.insert(0, ...) in place of out.append(...)
RECURSIVE Prepended(_, _)
Prepended(items, n) ==
  IF n = 0 THEN <<>> ELSE items[n].out \o Prepended(items, n - 1)

\* the concatenation of the `out` sequences of the per-item results
RECURSIVE Appended(_, _)
Appended(items, n) ==
  IF n = 0 THEN <<>> ELSE Appended(items, n - 1) \o items[n].out

\* a loop raises when the body raises for some item
Raised(items) == \E i \in 1..Len(items) : items[i].raised

\* the outcomes of a loop body for one item: the values it appends to the
\* list being built and the item as it leaves it, or an exception
Appends(seq, item) == [out |-> seq, arg |-> item, raised |-> FALSE]

Raises(item) == [out |-> <<>>, arg |-> item, raised |-> TRUE]

\* the call raised
IsRaise(x) == x.t = "raise"

\* the list a loop builds with out.append(...)
LoopResult(items) ==
  IF Raised(items) THEN Raise ELSE List(Appended(items, Len(items)))

(* ------------------------ transform_sections --------------------------- *)

\* as with_section_id, with sec["section_id"] = sid written into the caller's `sec`
with_section_id_in_place(sec, sid) ==
  IF ~IsDict(sec) THEN [new |-> Raise, old |-> sec]
  ELSE [new |-> setitem(sec, "section_id", sid),
        old |-> setitem(sec, "section_id", sid)]

\* {**sec, "section_id": sid}: a new mapping; the caller's `sec` is not written
with_section_id(sec, sid) ==
  IF ~IsDict(sec) THEN [new |-> Raise, old |-> sec]
  ELSE [new |-> setitem(sec, "section_id", sid), old |-> sec]

\* as derived_index, numbering with len(out), the records kept so far
derived_index_of_output(idx, n_out) == n_out

\* the index a list element missing its id is numbered with: enumerate()'s idx
derived_index(idx, n_out) == idx

\* body of the list loop: sec is sections_obj[idx], n_out is len(out) so far
section_list_item(sec, idx, n_out) ==
  IF IsDict(sec)
    THEN IF ~HasKey(sec, "section_id")
           THEN LET w == with_section_id(sec, Str(section_name(derived_index(idx, n_out))))
                IN  IF IsRaise(w.new) THEN Raises(w.old)
                    ELSE Appends(<<w.new>>, w.old)
           ELSE Appends(<<sec>>, sec)
    ELSE Appends(<<>>, sec)

\* as section_from_key, with {"section_id": key, **value}: the value's own id wins
section_keep_own_id(key, value) ==
  IF IsDict(value) /\ HasKey(value, "section_id")
    THEN [new |-> value, old |-> value]
    ELSE with_section_id(value, Str(key))

\* the record branch of the mapping loop: {**value, "section_id": key}
section_from_key(key, value) == with_section_id(value, Str(key))

\* as section_wrap, with the non-record value skipped as in the list form
section_wrap_dropped(key, value) == <<>>

\* the non-record branch of the mapping loop: {"section_id": key, "value": value}
section_wrap(key, value) ==
  <<Dict(<<Entry("section_id", Str(key)), Entry("value", value)>>)>>

\* body of the mapping loop
section_map_item(key, value) ==
  IF IsDict(value)
    THEN LET w == section_from_key(key, value)
         IN  IF IsRaise(w.new) THEN Raises(w.old)
             ELSE Appends(<<w.new>>, w.old)
    ELSE Appends(section_wrap(key, value), value)

\* as sections_fallback, with a TypeError for a value of an unexpected type
sections_fallback_raising(sections_obj) == [ret |-> Raise, arg |-> sections_obj]

\* the last line of transform_sections: return []
sections_fallback(sections_obj) == [ret |-> List(<<>>), arg |-> sections_obj]

\* the number of records among the first n elements of q
RECURSIVE CountDicts(_, _)
CountDicts(q, n) ==
  IF n = 0 THEN 0
  ELSE CountDicts(q, n - 1) + (IF IsDict(q[n]) THEN 1 ELSE 0)

transform_sections(sections_obj) ==
  IF IsList(sections_obj)
    THEN LET q     == sections_obj.v
             items == [i \in 1..Len(q) |->
                         section_list_item(q[i], i - 1, CountDicts(q, i - 1))]
         IN  [ret |-> LoopResult(items),
              arg |-> List([i \in 1..Len(q) |-> items[i].arg])]
  ELSE IF IsDict(sections_obj)
    THEN LET q     == sections_obj.v
             items == [i \in 1..Len(q) |-> section_map_item(q[i].k, q[i].v)]
         IN  [ret |-> LoopResult(items),
              arg |-> Dict([i \in 1..Len(q) |-> Entry(q[i].k, items[i].arg)])]
  ELSE sections_fallback(sections_obj)

(* -------------------------- transform_parts ---------------------------- *)

\* the caller's part after the call: its 'sections' object as the call left it
part_after(part, sections) ==
  IF HasKey(part, "sections") THEN setitem(part, "sections", sections.arg)
  ELSE part

\* `a or b`
py_or(a, b) == IF Truthy(a) THEN a ELSE b

\* as ensure_part_name, with the default left out
ensure_part_name_never(base, part_name) == base

\* as ensure_part_name, with `if "part_name" not in base:` as the test
ensure_part_name_if_missing(base, part_name) ==
  IF ~HasKey(base, "part_name")
    THEN setitem(base, "part_name", py_or(part_name, Str("Part")))
    ELSE base

\* if not base.get("part_name"): base["part_name"] = part_name or "Part"
ensure_part_name(base, part_name) ==
  IF ~Truthy(get(base, "part_name"))
    THEN setitem(base, "part_name", py_or(part_name, Str("Part")))
    ELSE base

\* body of the list loop once the element is known to be visited
part_list_body(part) ==
  LET part_name == get(part, "part_name")
      sections  == transform_sections(get(part, "sections"))
      base      == setitem(dict_without(part, "sections"), "sections", sections.ret)
  IN  IF IsRaise(part_name) \/ IsRaise(sections.ret)
        THEN Raises(part)
        ELSE Appends(<<ensure_part_name(base, part_name)>>,
                     part_after(part, sections))

\* as part_list_item, without the isinstance(part, dict) test
part_list_item_unguarded(part) == part_list_body(part)

\* body of the list loop: non-records are skipped
part_list_item(part) ==
  IF ~IsDict(part) THEN Appends(<<>>, part)
  ELSE part_list_body(part)

\* as part_name_or_key, with part_name = key
part_name_key_only(value, key) == Str(key)

\* part_name = value.get("part_name") or key
part_name_or_key(value, key) == py_or(get(value, "part_name"), Str(key))

\* as part_wrap, with the non-record value skipped as in the list form
part_wrap_dropped(key, value) == <<>>

\* the non-record branch of the mapping loop
part_wrap(key, value) ==
  <<Dict(<<Entry("part_name", Str(key)), Entry("value", value),
           Entry("sections", List(<<>>))>>)>>

\* body of the mapping loop
part_map_item(key, value) ==
  IF IsDict(value)
    THEN LET part_name == part_name_or_key(value, key)
             sections  == transform_sections(get(value, "sections"))
             base      == setitem(setitem(dict_without(value, "sections"),
                                          "part_name", part_name),
                                  "sections", sections.ret)
         IN  IF IsRaise(sections.ret)
               THEN Raises(value)
               ELSE Appends(<<base>>, part_after(value, sections))
    ELSE Appends(part_wrap(key, value), value)

\* the last line of transform_parts: return []
parts_fallback(parts_obj) == [ret |-> List(<<>>), arg |-> parts_obj]

transform_parts(parts_obj) ==
  IF IsList(parts_obj)
    THEN LET q     == parts_obj.v
             items == [i \in 1..Len(q) |-> part_list_item(q[i])]
         IN  [ret |-> LoopResult(items),
              arg |-> List([i \in 1..Len(q) |-> items[i].arg])]
  ELSE IF IsDict(parts_obj)
    THEN LET q     == parts_obj.v
             items == [i \in 1..Len(q) |-> part_map_item(q[i].k, q[i].v)]
         IN  [ret |-> LoopResult(items),
              arg |-> Dict([i \in 1..Len(q) |-> Entry(q[i].k, items[i].arg)])]
  ELSE parts_fallback(parts_obj)

(* ------------------------- transform_document -------------------------- *)

\* as document_top, with top = {}
document_top_empty(doc) == Dict(<<>>)

\* top = {k: v for k, v in doc.items() if k != "parts"}
document_top(doc) == dict_without(doc, "parts")

transform_document(doc) ==
  IF ~IsDict(doc) THEN [ret |-> Raise, arg |-> doc]
  ELSE LET top   == document_top(doc)
           parts == transform_parts(get(doc, "parts"))
       IN  [ret |-> IF IsRaise(parts.ret) THEN Raise
                    ELSE setitem(top, "parts", parts.ret),
            arg |-> IF HasKey(doc, "parts")
                      THEN setitem(doc, "parts", parts.arg)
                      ELSE doc]

(* ------------------------------ inputs --------------------------------- *)

\* the sequences over S of length at most n
SeqsUpTo(S, n) == UNION {[1..m -> S] : m \in 0..n}

\* the sequences of distinct keys: the key orders a mapping can be built in
KeySeqs(K, n) ==
  {q \in SeqsUpTo(K, n) : \A i, j \in 1..Len(q) : i # j => q[i] # q[j]}

\* the mappings with keys from K, in every insertion order, and values from S
Mappings(K, S, n) ==
  {Dict([i \in 1..Len(ks) |-> Entry(ks[i], vs[i])]) :
     <<ks, vs>> \in {p \in KeySeqs(K, n) \X SeqsUpTo(S, n) : Len(p[1]) = Len(p[2])}}

\* values that are neither list nor mapping
Scalars == {Null, Num(42), Str("string")}

\* "not given": the field is left out of the mapping that is built
Absent == [t |-> "absent"]

\* the mapping with the given fields, those not given left out
Record(fields) ==
  LET Given(e) == e.v # Absent
  IN  Dict(SelectSeq(fields, Given))

SectionElems ==
  {Null, Str("x")} \cup
  {Record(<<Entry("section_id", sid), Entry("content", c)>>) :
     <<sid, c>> \in {<<Absent, Absent>>, <<Absent, Str("c")>>,
                     <<Str("section_1"), Absent>>, <<Str("a"), Str("c")>>}}

SectionKeys == {"", "a", "section_1"}

SectionsInputs ==
  Scalars \cup {List(q) : q \in SeqsUpTo(SectionElems, MaxSections)}
          \cup Mappings(SectionKeys, SectionElems, MaxSections)

PartNames == {Absent, Null, Str(""), Num(0), Str("P")}

PartSections ==
  {Absent, Str("oops"),
   List(<<Str("x"), Record(<<Entry("content", Str("c"))>>)>>),
   Dict(<<Entry("a", Record(<<Entry("section_id", Str("b"))>>)),
          Entry("n", Num(42))>>)}

\* a part that carries a field other than part_name and sections
PartWithField ==
  Record(<<Entry("cik", Num(7)),
           Entry("sections", List(<<Record(<<Entry("content", Str("c"))>>)>>))>>)

PartElems ==
  {Null, Str("raw text"), PartWithField} \cup
  {Record(<<Entry("part_name", pn), Entry("sections", secs)>>) :
     pn \in PartNames, secs \in PartSections}

PartKeys == {"", "Part_1"}

PartsInputs ==
  Scalars \cup {List(q) : q \in SeqsUpTo(PartElems, MaxParts)}
          \cup Mappings(PartKeys, PartElems, MaxParts)

\* documents: every shape of 'parts' under a passed-through field, and the
\* documents without 'parts' or without any other field
\* the document of the end-to-end scenario
EndToEndDoc ==
  Record(<<Entry("company_name", Str("Acme")),
           Entry("parts",
             Record(<<Entry("Part_1",
               Record(<<Entry("sections",
                 Record(<<Entry("business",
                   Record(<<Entry("content", Str("We make widgets."))>>))>>))>>))>>))>>)

DocInputs ==
  {Record(<<Entry("company", Str("Apple")), Entry("parts", p)>>) :
     p \in PartsInputs \cup {Absent}}
  \cup {Record(<<Entry("parts", p)>>) : p \in Scalars \cup {Absent}}
  \cup {EndToEndDoc}

(* --------------------------- state machine ----------------------------- *)

None == [t |-> "none"]

\* the variables of convert_filing_json.main, when main is not what runs
NoMain ==
  /\ text = <<>>
  /\ data = None
  /\ transformed = None
  /\ out_file = None

\* the variables of the per-file drivers, when no driver runs
NoDriver ==
  /\ folder = FALSE
  /\ files = <<>>
  /\ next_file = 0
  /\ runs = <<>>
  /\ reports = <<>>

\* the variables of process_company_file, when it is not what runs
NoGemini ==
  /\ company_data = <<>>
  /\ at = 0
  /\ visited = <<>>
  /\ calls = 0
  /\ response = None
  /\ gemini_result = None
  /\ output_file = "none"

\* the variables of run_complete_pipeline, when it is not what runs
NoPipeline ==
  /\ options = None
  /\ steps_run = <<>>
  /\ steps_completed = <<>>
  /\ errors = <<>>
  /\ returned = None

\* the variables of a direct call, when main or a driver runs
NoCall ==
  /\ arg = None
  /\ ret = None
  /\ arg_after = None
  /\ ret2 = None

Init ==
  /\ NoMain
  /\ NoDriver
  /\ NoGemini
  /\ NoPipeline
  /\ \/ fn = "transform_sections" /\ arg \in SectionsInputs
     \/ fn = "transform_parts" /\ arg \in PartsInputs
     \/ fn = "transform_document" /\ arg \in DocInputs
  /\ pc = "ready"
  /\ ret = None
  /\ arg_after = None
  /\ ret2 = None

Call(f, r) ==
  /\ pc = "ready"
  /\ fn = f
  /\ ret' = r.ret
  /\ arg_after' = r.arg
  /\ pc' = "returned"
  /\ UNCHANGED <<fn, arg, ret2, mainvars, drivervars, geminivars, pipelinevars>>

CallTransformSections == Call("transform_sections", transform_sections(arg))

CallTransformParts == Call("transform_parts", transform_parts(arg))

CallTransformDocument == Call("transform_document", transform_document(arg))

\* the normalizer applied to its own output
CallTransformDocumentAgain ==
  /\ pc = "returned"
  /\ fn = "transform_document"
  /\ ~IsRaise(ret)
  /\ ret2' = transform_document(ret).ret
  /\ pc' = "returned_again"
  /\ UNCHANGED <<fn, arg, ret, arg_after, mainvars, drivervars, geminivars, pipelinevars>>

Next ==
  \/ CallTransformSections
  \/ CallTransformParts
  \/ CallTransformDocument
  \/ CallTransformDocumentAgain

Spec == Init /\ [][Next]_vars

(* ----------------------- convert_filing_json.main ---------------------- *)

\* A text is the sequence of its lines. A line is blank, a complete JSON value
\* ("value"), "[" ("open"), "]" ("close"), a JSON value followed by a comma
\* ("item"), or something that is not JSON ("junk").
BlankLine == [kind |-> "blank"]

JunkLine == [kind |-> "junk"]

OpenLine == [kind |-> "open"]

CloseLine == [kind |-> "close"]

ValueLine(value) == [kind |-> "value", v |-> value]

ItemLine(value) == [kind |-> "item", v |-> value]

\* [ln.strip() for ln in text.splitlines() if ln.strip()]
non_blank(lines) ==
  LET Kept(ln) == ln.kind # "blank"
  IN  SelectSeq(lines, Kept)

\* json.loads of a text: one value, or "[", items and a last value, "]" over
\* several lines; JSONDecodeError for anything else
json_loads(lines) ==
  LET nb == non_blank(lines)
      n  == Len(nb)
  IN  IF n = 1 /\ nb[1].kind = "value" THEN nb[1].v
      ELSE IF n = 2 /\ nb[1].kind = "open" /\ nb[2].kind = "close" THEN List(<<>>)
      ELSE IF /\ n >= 3
              /\ nb[1].kind = "open"
              /\ nb[n].kind = "close"
              /\ nb[n - 1].kind = "value"
              /\ \A i \in 2..(n - 2) : nb[i].kind = "item"
        THEN List([i \in 1..(n - 2) |-> nb[i + 1].v])
      ELSE Raise

\* the number of lines is_probably_ndjson tries: lines[:10]
ProbeLines == 10

\* as too_few_lines, with len(lines) < 1
no_lines(lines) == Len(lines) < 1

\* len(lines) <= 1
too_few_lines(lines) == Len(lines) <= 1

is_probably_ndjson(lines) ==
  LET nb     == non_blank(lines)
      probed == SubSeq(nb, 1, IF Len(nb) < ProbeLines THEN Len(nb) ELSE ProbeLines)
  IN  IF too_few_lines(nb) THEN FALSE
      ELSE \A i \in 1..Len(probed) : ~IsRaise(json_loads(<<probed[i]>>))

load_input(lines) ==
  IF is_probably_ndjson(lines)
    THEN LET nb   == non_blank(lines)
             docs == [i \in 1..Len(nb) |-> json_loads(<<nb[i]>>)]
         IN  IF \E i \in 1..Len(nb) : IsRaise(docs[i]) THEN Raise
             ELSE List(docs)
    ELSE json_loads(lines)

\* transform_document(d), as an element of the list being built
batch_item_body(d) ==
  LET r == transform_document(d).ret
  IN  IF IsRaise(r) THEN Raises(d) ELSE Appends(<<r>>, d)

\* as batch_item, without `if isinstance(d, dict)`
batch_item_unguarded(d) == batch_item_body(d)

\* one element of the list comprehension
batch_item(d) ==
  IF IsDict(d) THEN batch_item_body(d) ELSE Appends(<<>>, d)

\* the transform step of main
transform_loaded(loaded) ==
  IF IsList(loaded)
    THEN LoopResult([i \in 1..Len(loaded.v) |-> batch_item(loaded.v[i])])
    ELSE transform_document(loaded).ret

(* inputs *)

\* the longest text of arbitrary lines, and the longest run of arbitrary
\* lines after a long run of document lines
MaxLines == 4

MaxTail == 1

\* a second document, in the list form
ListFormDoc ==
  Record(<<Entry("company", Str("Apple")), Entry("parts", List(<<PartWithField>>))>>)

TextLines ==
  {BlankLine, JunkLine, OpenLine, CloseLine, ValueLine(EndToEndDoc),
   ValueLine(ListFormDoc), ValueLine(Num(42)), ItemLine(EndToEndDoc)}

\* the short texts, and the texts that start with about ProbeLines documents
Texts ==
  SeqsUpTo(TextLines, MaxLines) \cup
  {[i \in 1..n |-> ValueLine(EndToEndDoc)] \o tail :
     n \in (ProbeLines - 1)..(ProbeLines + 1), tail \in SeqsUpTo(TextLines, MaxTail)}

InitMain ==
  /\ fn = "main"
  /\ pc = "start"
  /\ NoCall
  /\ NoDriver
  /\ NoGemini
  /\ NoPipeline
  /\ text \in Texts
  /\ data = None
  /\ transformed = None
  /\ out_file = None

\* data = load_input(in_path)
MainLoad ==
  /\ fn = "main"
  /\ pc = "start"
  /\ data' = load_input(text)
  /\ pc' = IF IsRaise(data') THEN "load_failed" ELSE "loaded"
  /\ UNCHANGED <<callvars, drivervars, geminivars, pipelinevars, text, transformed, out_file>>

\* the if / else that builds `transformed`
MainTransform ==
  /\ fn = "main"
  /\ pc = "loaded"
  /\ transformed' = transform_loaded(data)
  /\ pc' = IF IsRaise(transformed') THEN "transform_failed" ELSE "transformed"
  /\ UNCHANGED <<callvars, drivervars, geminivars, pipelinevars, text, data, out_file>>

\* json.dump(transformed, f, ...); return 0
MainWrite ==
  /\ fn = "main"
  /\ pc = "transformed"
  /\ out_file' = transformed
  /\ pc' = "written"
  /\ UNCHANGED <<callvars, drivervars, geminivars, pipelinevars, text, data, transformed>>

NextMain ==
  \/ MainLoad
  \/ MainTransform
  \/ MainWrite

SpecMain == InitMain /\ [][NextMain]_vars

(* ------------------------- the per-file drivers ------------------------ *)

\* remove_gemini_fields.py, fix_part_names.py and replace_part_names.py: main
\* lists the JSON files of the folder and calls process_json_file (or
\* process_json_file_fixed) on each; the three differ in the transform only.
DriverNames == {"remove_gemini_fields", "fix_part_names", "replace_part_names"}

\* the most JSON files in the folder
MaxFiles == 3

\* how a call of process_json_file goes: to its end, or to an exception in
\* open / json.load / the transform / the write back
Outcomes == {"ok", "read_error", "parse_error", "transform_error", "write_error"}

\* the content of a file after the call: rewritten at the end; untouched by an
\* exception before the second open; after an exception in the write back,
\* untouched (open failed) or cut short (json.dump failed)
contents_after(outcome, content) ==
  CASE outcome = "ok" -> {"rewritten"}
    [] outcome = "write_error" -> {content, "partial"}
    [] OTHER -> {content}

\* as except_catches, with `except json.JSONDecodeError`
except_catches_parse_only(outcome) == outcome = "parse_error"

\* `except Exception as e` around the body of process_json_file
except_catches(outcome) == outcome # "ok"

\* the line process_json_file prints last
report_of(file, outcome) ==
  [file |-> file, status |-> IF outcome = "ok" THEN "success" ELSE "error"]

InitDrivers ==
  /\ fn \in DriverNames
  /\ pc = "start"
  /\ NoCall
  /\ NoMain
  /\ NoGemini
  /\ NoPipeline
  /\ folder \in BOOLEAN
  /\ files \in IF folder THEN {[i \in 1..n |-> "original"] : n \in 0..MaxFiles}
               ELSE {<<>>}
  /\ next_file = 0
  /\ runs = <<>>
  /\ reports = <<>>

\* main up to the loop: the two early returns
DriverStart ==
  /\ fn \in DriverNames
  /\ pc = "start"
  /\ IF ~folder \/ Len(files) = 0
       THEN pc' = "done" /\ UNCHANGED next_file
       ELSE pc' = "loop" /\ next_file' = 1
  /\ UNCHANGED <<callvars, mainvars, geminivars, pipelinevars, folder, files, runs, reports>>

\* one iteration of the loop: process_json_file(file_path)
ProcessFile ==
  /\ fn \in DriverNames
  /\ pc = "loop"
  /\ next_file <= Len(files)
  /\ \E outcome \in Outcomes :
       /\ runs' = Append(runs, [file |-> next_file, outcome |-> outcome])
       /\ \E content \in contents_after(outcome, files[next_file]) :
            files' = [files EXCEPT ![next_file] = content]
       /\ IF outcome = "ok" \/ except_catches(outcome)
            THEN /\ reports' = Append(reports, report_of(next_file, outcome))
                 /\ next_file' = next_file + 1
                 /\ pc' = "loop"
            ELSE /\ pc' = "crashed"
                 /\ UNCHANGED <<reports, next_file>>
  /\ UNCHANGED <<callvars, mainvars, geminivars, pipelinevars, folder>>

\* the end of the loop: "Completed processing ..."
DriverFinish ==
  /\ fn \in DriverNames
  /\ pc = "loop"
  /\ next_file > Len(files)
  /\ pc' = "done"
  /\ UNCHANGED <<callvars, mainvars, drivervars, geminivars, pipelinevars>>

NextDrivers ==
  \/ DriverStart
  \/ ProcessFile
  \/ DriverFinish

SpecDrivers == InitDrivers /\ [][NextDrivers]_vars

(* --------------------------- gemini_processor -------------------------- *)

\* GeminiProcessor.valid_parts
valid_parts ==
  {"Part I: Business and Risk Factors",
   "Part II: Financial Information",
   "Part III: Governance",
   "Part IV: Exhibits and Schedules"}

\* GeminiProcessor.valid_items
valid_items ==
  {"Item 1. Business",
   "Item 1A. Risk Factors",
   "Item 1B. Unresolved Staff Comments",
   "Item 2. Properties",
   "Item 3. Legal Proceedings",
   "Item 4. Mine Safety Disclosures",
   "Item 5. Market for Registrant's Common Equity, Related Stockholder Matters and Issuer Purchases of Equity Securities",
   "Item 6. [Reserved]",
   "Item 7. Management's Discussion and Analysis of Financial Condition and Results of Operations (MD&A)",
   "Item 7A. Quantitative and Qualitative Disclosures About Market Risk",
   "Item 8. Financial Statements and Supplementary Data",
   "Item 9. Changes in and Disagreements With Accountants on Accounting and Financial Disclosure",
   "Item 9A. Controls and Procedures",
   "Item 9B. Other Information",
   "Item 9C. Disclosure Regarding Foreign Jurisdictions that Prevent Inspections",
   "Item 10. Directors, Executive Officers and Corporate Governance",
   "Item 11. Executive Compensation",
   "Item 12. Security Ownership of Certain Beneficial Owners and Management and Related Stockholder Matters",
   "Item 13. Certain Relationships and Related Transactions, and Director Independence",
   "Item 14. Principal Accountant Fees and Services",
   "Item 15. Exhibits, Financial Statement Schedules",
   "Item 16. Form 10-K Summary"}

\* x in strings, for a list of strings
InStrings(x, strings) == x.t = "str" /\ x.v \in strings

\* {'part_name': ..., 'item_name': ..., 'confidence': ...}
Classification(part_name, item_name, confidence) ==
  Record(<<Entry("part_name", part_name), Entry("item_name", item_name),
           Entry("confidence", confidence)>>)

\* an entry of category_mapping: all of them have confidence 'low'
Default(part_name, item_name) ==
  Classification(Str(part_name), Str(item_name), Str("low"))

\* category_mapping of get_default_classification
category_mapping ==
  [business |->
     Default("Part I: Business and Risk Factors", "Item 1. Business"),
   risk_factors |->
     Default("Part I: Business and Risk Factors", "Item 1A. Risk Factors"),
   properties |->
     Default("Part I: Business and Risk Factors", "Item 2. Properties"),
   legal_proceedings |->
     Default("Part I: Business and Risk Factors", "Item 3. Legal Proceedings"),
   selected_financial_data |->
     Default("Part II: Financial Information", "Item 6. [Reserved]"),
   management_discussion |->
     Default("Part II: Financial Information",
             "Item 7. Management's Discussion and Analysis of Financial Condition and Results of Operations (MD&A)"),
   financial_statements |->
     Default("Part II: Financial Information",
             "Item 8. Financial Statements and Supplementary Data"),
   controls_procedures |->
     Default("Part II: Financial Information",
             "Item 9A. Controls and Procedures"),
   directors_officers |->
     Default("Part III: Governance",
             "Item 10. Directors, Executive Officers and Corporate Governance"),
   executive_compensation |->
     Default("Part III: Governance", "Item 11. Executive Compensation"),
   exhibits |->
     Default("Part IV: Exhibits and Schedules",
             "Item 15. Exhibits, Financial Statement Schedules")]

\* get_default_classification(current_category), for a category that is a string
get_default_classification(current_category) ==
  IF current_category \in DOMAIN category_mapping
    THEN category_mapping[current_category]
    ELSE Default("Part I: Business and Risk Factors", "Item 1. Business")

\* text that json.loads rejects
NotJson == [t |-> "notjson"]

\* what one call of model.generate_content(prompt) gives: an exception, or a
\* response whose text is `body` (the text of a JSON value, or text that is
\* not JSON), bare or between the fence lines ```json and ``` or ``` and ```
ApiError == [kind |-> "error", fence |-> "none", body |-> NotJson]

Response(fence, body) == [kind |-> "text", fence |-> fence, body |-> body]

\* json.loads(response_text) after the clean up: only a text that starts with
\* ```json loses its fences
loads_response(answer) ==
  IF answer.fence = "plain" \/ answer.body = NotJson
    THEN Raise
    ELSE answer.body

\* as validates, without the test of item_name
validates_part_only(result) ==
  InStrings(get(result, "part_name"), valid_parts)

\* result.get('part_name') in self.valid_parts and
\* result.get('item_name') in self.valid_items
validates(result) ==
  /\ InStrings(get(result, "part_name"), valid_parts)
  /\ InStrings(get(result, "item_name"), valid_items)

\* range(3): the attempts of process_section
MaxAttempts == 3

\* one attempt of process_section: the value it returns, or None when the
\* loop goes on (an exception of the call, a JSONDecodeError, the
\* AttributeError of result.get on a value that is no mapping, or a response
\* that fails the validation)
attempt_result(answer) ==
  IF answer.kind = "error" THEN None
  ELSE LET result == loads_response(answer)
       IN  IF IsRaise(result) THEN None
           ELSE IF ~IsDict(result) THEN None
           ELSE IF validates(result) THEN result
           ELSE None

\* section.get(key, default)
get_or(x, key, default) ==
  IF ~IsDict(x) THEN Raise
  ELSE IF HasKey(x, key) THEN Lookup(x, key)
  ELSE default

\* not s.strip(), for a string of spaces and other characters
is_blank(s) == \A i \in 1..Len(s) : SubSeq(s, i, i) = " "

\* the concatenation of the first n sequences of seqs
RECURSIVE Concat(_, _)
Concat(seqs, n) ==
  IF n = 0 THEN <<>> ELSE Concat(seqs, n - 1) \o seqs[n]

\* the positions <<year, part, section>> of the sections of a company in the
\* order the three nested loops of process_company_file reach them
section_order(company) ==
  LET InPart(y, p) ==
        [s \in 1..Len(company[y][p]) |-> <<y, p, s>>]
      InYear(y) ==
        LET per_part == [p \in 1..Len(company[y]) |-> InPart(y, p)]
        IN  Concat(per_part, Len(per_part))
      per_year == [y \in 1..Len(company) |-> InYear(y)]
  IN  Concat(per_year, Len(per_year))

\* the section at a position
SectionAt(company, pos) == company[pos[1]][pos[2]][pos[3]]

\* the three assignments to the section: the KeyError of
\* gemini_result['confidence'] comes after the first two are done
update_section(section, result) ==
  LET with_part == setitem(section, "gemini_part_name", Lookup(result, "part_name"))
      with_item == setitem(with_part, "gemini_item_name", Lookup(result, "item_name"))
  IN  IF HasKey(result, "confidence")
        THEN [section |-> setitem(with_item, "gemini_confidence",
                                  Lookup(result, "confidence")),
              raised |-> FALSE]
        ELSE [section |-> with_item, raised |-> TRUE]

\* the most sections in a company file
MaxCompanySections == 2

\* the sections of the input files: with text, blank, without content,
\* without category, and with a content that is no string
GeminiSections ==
  {Record(<<Entry("category", category), Entry("content", content)>>) :
     <<category, content>> \in
       {<<Str("exhibits"), Str("text")>>,
        <<Str("business"), Str("  ")>>,
        <<Str("business"), Absent>>,
        <<Absent, Str(" a")>>,
        <<Str("business"), Null>>}}

\* the company with one more section: in the part of the section before it,
\* in a new part of the same year, or in a new year
WithSection(company, section, break) ==
  CASE break = "year" -> Append(company, <<<<section>>>>)
    [] break = "part" ->
         [company EXCEPT ![Len(company)] = Append(@, <<section>>)]
    [] OTHER ->
         [company EXCEPT ![Len(company)][Len(company[Len(company)])] =
                           Append(@, section)]

\* years_data of a company file: the years, each the parts of its content,
\* each the sections of the part
RECURSIVE Company(_, _, _)
Company(sections, breaks, n) ==
  IF n = 0 THEN <<>>
  ELSE WithSection(Company(sections, breaks, n - 1), sections[n], breaks[n])

Companies ==
  {Company(sections, breaks, Len(sections)) :
     <<sections, breaks>> \in
       {p \in SeqsUpTo(GeminiSections, MaxCompanySections)
                \X SeqsUpTo({"section", "part", "year"}, MaxCompanySections) :
          /\ Len(p[1]) = Len(p[2])
          /\ Len(p[2]) > 0 => p[2][1] = "year"}}

\* the answers of the model
Responses ==
  LET good == Classification(Str("Part II: Financial Information"),
                             Str("Item 2. Properties"), Str("high"))
      bare == Classification(Str("Part III: Governance"),
                             Str("Item 11. Executive Compensation"), Absent)
      bad_part == Classification(Str("Part V"), Str("Item 1. Business"),
                                 Str("high"))
      bad_item == Classification(Str("Part III: Governance"), Absent,
                                 Str("high"))
  IN  {ApiError,
       Response("none", NotJson),
       Response("none", List(<<>>)),
       Response("none", good),
       Response("json", good),
       Response("plain", good),
       Response("none", bare),
       Response("none", bad_part),
       Response("none", bad_item)}

InitGemini ==
  /\ fn = "process_company_file"
  /\ pc = "start"
  /\ NoCall
  /\ NoMain
  /\ NoDriver
  /\ NoPipeline
  /\ company_data \in Companies
  /\ at = 0
  /\ visited = <<>>
  /\ calls = 0
  /\ response = None
  /\ gemini_result = None
  /\ output_file = "none"

\* open(input_file), json.load(f), company_data['company_name']: each may raise
GeminiLoad ==
  /\ fn = "process_company_file"
  /\ pc = "start"
  /\ \E loaded \in BOOLEAN :
       IF loaded THEN pc' = "visiting" /\ at' = 1
       ELSE pc' = "failed" /\ UNCHANGED at
  /\ UNCHANGED <<callvars, mainvars, drivervars, pipelinevars, company_data,
                 visited, calls, response, gemini_result, output_file>>

\* the body of the innermost loop up to the call of process_section
GeminiVisit ==
  /\ fn = "process_company_file"
  /\ pc = "visiting"
  /\ at <= Len(section_order(company_data))
  /\ LET section == SectionAt(company_data, section_order(company_data)[at])
         section_content == get_or(section, "content", Str(""))
     IN  /\ visited' = Append(visited, section_order(company_data)[at])
         /\ calls' = 0
         /\ IF section_content.t # "str"
              THEN pc' = "failed" /\ UNCHANGED at
              ELSE IF is_blank(section_content.v)
                THEN pc' = "visiting" /\ at' = at + 1
                ELSE pc' = "classifying" /\ UNCHANGED at
  /\ UNCHANGED <<callvars, mainvars, drivervars, pipelinevars, company_data,
                 response, gemini_result, output_file>>

\* one attempt of process_section: a call of the model
GeminiAttempt ==
  /\ fn = "process_company_file"
  /\ pc = "classifying"
  /\ calls < MaxAttempts
  /\ calls' = calls + 1
  /\ response' \in Responses
  /\ IF attempt_result(response') # None
       THEN /\ gemini_result' = attempt_result(response')
            /\ pc' = "classified"
       ELSE UNCHANGED <<pc, gemini_result>>
  /\ UNCHANGED <<callvars, mainvars, drivervars, pipelinevars, company_data,
                 at, visited, output_file>>

\* the end of the attempts: return self.get_default_classification(...)
GeminiDefault ==
  /\ fn = "process_company_file"
  /\ pc = "classifying"
  /\ calls = MaxAttempts
  /\ LET section == SectionAt(company_data, section_order(company_data)[at])
         current_category == get_or(section, "category", Str("unknown"))
     IN  gemini_result' = get_default_classification(current_category.v)
  /\ pc' = "classified"
  /\ UNCHANGED <<callvars, mainvars, drivervars, pipelinevars, company_data,
                 at, visited, calls, response, output_file>>

\* the rest of the body of the innermost loop: the section takes the fields
GeminiUpdate ==
  /\ fn = "process_company_file"
  /\ pc = "classified"
  /\ LET pos == section_order(company_data)[at]
         updated == update_section(SectionAt(company_data, pos), gemini_result)
     IN  /\ company_data' =
               [company_data EXCEPT ![pos[1]][pos[2]][pos[3]] = updated.section]
         /\ IF updated.raised
              THEN pc' = "failed" /\ UNCHANGED at
              ELSE pc' = "visiting" /\ at' = at + 1
  /\ UNCHANGED <<callvars, mainvars, drivervars, pipelinevars, visited,
                 calls, response, gemini_result, output_file>>

\* after the loops: open(output_file, 'w') and json.dump leave the whole
\* file, no file when open raises, a part of the file when json.dump raises
GeminiSave ==
  /\ fn = "process_company_file"
  /\ pc = "visiting"
  /\ at > Len(section_order(company_data))
  /\ \E save \in {"complete", "none", "partial"} :
       /\ output_file' = save
       /\ pc' = IF save = "complete" THEN "saved" ELSE "failed"
  /\ UNCHANGED <<callvars, mainvars, drivervars, pipelinevars, company_data,
                 at, visited, calls, response, gemini_result>>

NextGemini ==
  \/ GeminiLoad
  \/ GeminiVisit
  \/ GeminiAttempt
  \/ GeminiDefault
  \/ GeminiUpdate
  \/ GeminiSave

SpecGemini == InitGemini /\ [][NextGemini]_vars

(* ------------------ the transforms of the per-file drivers -------------- *)

\* remove_gemini_fields.remove_specified_fields, replace_part_names.
\* update_part_names and fix_part_names.update_part_names_fixed change their
\* argument in place and return None: each is modelled by the argument as the
\* call leaves it, and update_part_names_fixed, which can raise, by
\* [arg |-> the argument as the call leaves it, raised |-> whether it raised].

\* fields_to_remove
fields_to_remove == {"gemini_item_name", "gemini_part_name", "section_id"}

\* as stays, with section_id left out of fields_to_remove
stays_but_for_gemini(key) == key \notin {"gemini_item_name", "gemini_part_name"}

\* the keys `del obj[field]` leaves in a mapping
stays(key) == key \notin fields_to_remove

\* remove_specified_fields(obj)
RECURSIVE remove_specified_fields(_)
remove_specified_fields(obj) ==
  IF IsDict(obj)
    THEN LET Stays(e) == stays(e.k)
             rest == SelectSeq(obj.v, Stays)
         IN  Dict([i \in 1..Len(rest) |->
                     Entry(rest[i].k, remove_specified_fields(rest[i].v))])
  ELSE IF IsList(obj)
    THEN List([i \in 1..Len(obj.v) |-> remove_specified_fields(obj.v[i])])
  ELSE obj

\* the gemini_part_name the loop over part['sections'] stops at: that of the
\* first section that is a mapping and has the key, None without one
first_gemini_part_name(sections) ==
  LET Has(i) == IsDict(sections.v[i]) /\ HasKey(sections.v[i], "gemini_part_name")
  IN  IF IsList(sections) /\ \E i \in 1..Len(sections.v) : Has(i)
        THEN Lookup(sections.v[CHOOSE i \in 1..Len(sections.v) :
                                  Has(i) /\ \A j \in 1..(i - 1) : ~Has(j)],
                    "gemini_part_name")
        ELSE Null

\* replace_part_names: the body of `for part in data['parts']`
replace_part_name(part) ==
  IF IsDict(part) /\ HasKey(part, "sections")
    THEN LET gemini_part_name ==
               first_gemini_part_name(Lookup(part, "sections"))
         IN  IF Truthy(gemini_part_name) /\ HasKey(part, "part_name")
               THEN setitem(part, "part_name", gemini_part_name)
               ELSE part
    ELSE part

\* update_part_names(data)
RECURSIVE update_part_names(_)
update_part_names(document) ==
  IF ~IsDict(document) THEN document
  ELSE LET visit(value) ==
             IF IsDict(value) THEN update_part_names(value)
             ELSE IF IsList(value)
               THEN List([i \in 1..Len(value.v) |->
                            update_part_names(value.v[i])])
             ELSE value
           nested == Dict([i \in 1..Len(document.v) |->
                             Entry(document.v[i].k, visit(document.v[i].v))])
       IN  IF HasKey(nested, "parts") /\ IsList(Lookup(nested, "parts"))
             THEN LET parts == Lookup(nested, "parts").v
                  IN  setitem(nested, "parts",
                              List([i \in 1..Len(parts) |->
                                      replace_part_name(parts[i])]))
             ELSE nested

\* s.startswith(prefix)
startswith(s, prefix) ==
  Len(s) >= Len(prefix) /\ SubSeq(s, 1, Len(prefix)) = prefix

\* sub in s
contains(s, sub) ==
  \E i \in 1..(Len(s) - Len(sub) + 1) : SubSeq(s, i, i + Len(sub) - 1) = sub

\* as already_formatted, for a test that never holds
never_formatted(name) == FALSE

\* "Skip if already properly formatted"
already_formatted(name) ==
  \/ startswith(name, "Part I:")
  \/ startswith(name, "Part II:")
  \/ startswith(name, "Part III:")
  \/ startswith(name, "Part IV:")

\* "try to infer from part_name": the if / elif chain, None when no test holds
infer_part_name(name) ==
  IF contains(name, "Part_1_") \/ contains(name, "Part_I")
    THEN Str("Part I: Business and Risk Factors")
  ELSE IF contains(name, "Part_2_") \/ contains(name, "Part_II")
    THEN Str("Part II: Financial Information")
  ELSE IF contains(name, "Part_3_") \/ contains(name, "Part_III")
    THEN Str("Part III: Governance")
  ELSE IF contains(name, "Part_4_") \/ contains(name, "Part_5_")
          \/ contains(name, "Part_IV")
    THEN Str("Part IV: Exhibits and Schedules")
  ELSE Null

\* as set_part_name, with the old name kept in front of the new one
set_part_name_after_old(part, name) ==
  LET old == Lookup(part, "part_name")
  IN  setitem(part, "part_name",
              IF name.t = "str" THEN Str(old.v \o " / " \o name.v) ELSE name)

\* part['part_name'] = gemini_part_name
set_part_name(part, name) == setitem(part, "part_name", name)

\* what a step of a loop over values changed in place gives
Leaves(value) == [arg |-> value, raised |-> FALSE]

Fails(value) == [arg |-> value, raised |-> TRUE]

\* fix_part_names: the body of `for part in data['parts']`; startswith raises
\* AttributeError on a part_name that is no string
fix_part_name(part) ==
  IF IsDict(part) /\ HasKey(part, "part_name")
    THEN LET current_part_name == Lookup(part, "part_name")
         IN  IF current_part_name.t # "str" THEN Fails(part)
             ELSE IF already_formatted(current_part_name.v) THEN Leaves(part)
             ELSE LET found == IF HasKey(part, "sections")
                                 THEN first_gemini_part_name(Lookup(part, "sections"))
                                 ELSE Null
                      gemini_part_name ==
                        IF Truthy(found) THEN found
                        ELSE infer_part_name(current_part_name.v)
                  IN  IF Truthy(gemini_part_name)
                        THEN Leaves(set_part_name(part, gemini_part_name))
                        ELSE Leaves(part)
    ELSE Leaves(part)

\* a loop whose body changes the items in place, steps[i] being what the body
\* gives for items[i]: the items as the loop leaves them; the first exception
\* ends the loop, and the items after it stay as they were
InPlace(items, steps) ==
  LET ended(i) == \E j \in 1..(i - 1) : steps[j].raised
  IN  [arg |-> [i \in 1..Len(items) |->
                  IF ended(i) THEN items[i] ELSE steps[i].arg],
       raised |-> \E i \in 1..Len(items) : steps[i].raised]

\* update_part_names_fixed(data)
RECURSIVE update_part_names_fixed(_)
update_part_names_fixed(document) ==
  IF ~IsDict(document) THEN Leaves(document)
  ELSE LET visit(e) ==
             IF IsDict(e.v)
               THEN LET r == update_part_names_fixed(e.v)
                    IN  [arg |-> Entry(e.k, r.arg), raised |-> r.raised]
             ELSE IF IsList(e.v)
               THEN LET r == InPlace(e.v.v,
                                     [i \in 1..Len(e.v.v) |->
                                        update_part_names_fixed(e.v.v[i])])
                    IN  [arg |-> Entry(e.k, List(r.arg)), raised |-> r.raised]
             ELSE Leaves(e)
           nested == InPlace(document.v,
                             [i \in 1..Len(document.v) |-> visit(document.v[i])])
       IN  IF nested.raised THEN Fails(Dict(nested.arg))
           ELSE IF HasKey(Dict(nested.arg), "parts")
                   /\ IsList(Lookup(Dict(nested.arg), "parts"))
             THEN LET parts == Lookup(Dict(nested.arg), "parts").v
                      r == InPlace(parts, [i \in 1..Len(parts) |->
                                             fix_part_name(parts[i])])
                  IN  [arg |-> setitem(Dict(nested.arg), "parts", List(r.arg)),
                       raised |-> r.raised]
           ELSE Leaves(Dict(nested.arg))

\* the most fields of a mapping of the inputs of remove_specified_fields
MaxFields == 2

\* the longest 'sections' list of the inputs of update_part_names and
\* update_part_names_fixed
MaxPartSections == 2

\* a value at the top of the file, or in a list in a mapping
Shallow(x) == {x, Dict(<<Entry("data", List(<<x>>))>>)}

\* a value at the top of the file, in a list, in a mapping, in a list in a
\* mapping, in a list in a list
Nested(x) ==
  Shallow(x) \cup
  {List(<<x>>),
   Dict(<<Entry("data", x)>>),
   Dict(<<Entry("data", List(<<List(<<x>>)>>))>>)}

\* the inputs of remove_specified_fields: a mapping with a mapping nested in it
RemoveInputs ==
  LET inner == Mappings(fields_to_remove \cup {"content"}, {Str("text")},
                        MaxFields)
      outer == inner \cup
               {Dict(<<Entry("gemini_item_name",
                             Dict(<<Entry("content", Str("text"))>>))>>)}
  IN  UNION {Nested(i) : i \in inner}
        \cup {setitem(o, "sections", w) :
                o \in outer, w \in UNION {Nested(i) : i \in inner}}

\* the sections of a part: without and with a gemini_part_name (a name, an
\* empty one, one that is no string), and one that is no mapping
NamedSections(names) ==
  {Record(<<Entry("content", Str("text")), Entry("gemini_part_name", g)>>) :
     g \in names \cup {Absent}} \cup {Str("section")}

\* the parts: with and without part_name, with and without a list 'sections'
NamedParts(part_names, names) ==
  {Record(<<Entry("part_name", n), Entry("sections", s)>>) :
     n \in part_names \cup {Absent},
     s \in {List(q) : q \in SeqsUpTo(NamedSections(names), MaxPartSections)}
             \cup {Absent, Str("sections")}}

\* the documents: one part, or that part and a second one
PartDocs(part_names, names) ==
  {Dict(<<Entry("parts", List(parts))>>) :
           parts \in UNION {{<<p>>,
                             <<p, Record(<<Entry("part_name", Str("Part_9")),
                                           Entry("sections", List(<<
                                             Record(<<Entry("gemini_part_name",
                                                            Str("Part III: Governance"))>>)>>))>>)>>} :
                            p \in NamedParts(part_names, names)}}

\* the inputs of update_part_names
ReplaceInputs ==
  UNION {Nested(d) :
           d \in PartDocs({Str("Part_1")},
                          {Str("Part II: Financial Information"),
                           Str("Part III: Governance"), Str("")})}

\* the inputs of update_part_names_fixed
FixInputs ==
  UNION {Shallow(d) :
           d \in PartDocs({Str("Part I: Overview"), Str("Part IV: Exhibits"),
                           Str("Part_1_Business"), Str("Part_II_Financial"),
                           Str("Part_3_"), Str("Part_IV"), Str("Overview"),
                           Num(7)},
                          {Str("Part II: Financial Information"),
                           Str("Gemini"), Str(""), Num(5)})}

InitFields ==
  /\ NoMain
  /\ NoDriver
  /\ NoGemini
  /\ NoPipeline
  /\ \/ fn = "remove_specified_fields" /\ arg \in RemoveInputs
     \/ fn = "update_part_names" /\ arg \in ReplaceInputs
     \/ fn = "update_part_names_fixed" /\ arg \in FixInputs
  /\ pc = "ready"
  /\ ret = None
  /\ arg_after = None
  /\ ret2 = None

\* what the caller of a function that works in place sees: None or the
\* exception, and its argument
InPlaceCall(raised, value) ==
  [ret |-> IF raised THEN Raise ELSE Null, arg |-> value]

CallRemoveSpecifiedFields ==
  Call("remove_specified_fields",
       InPlaceCall(FALSE, remove_specified_fields(arg)))

CallUpdatePartNames ==
  Call("update_part_names", InPlaceCall(FALSE, update_part_names(arg)))

CallUpdatePartNamesFixed ==
  Call("update_part_names_fixed",
       InPlaceCall(update_part_names_fixed(arg).raised,
                   update_part_names_fixed(arg).arg))

\* a second call on the same object, after a first one that returned: ret2 is
\* the object as the second call leaves it
CallAgain ==
  /\ pc = "returned"
  /\ ~IsRaise(ret)
  /\ \/ /\ fn = "remove_specified_fields"
        /\ ret2' = remove_specified_fields(arg_after)
     \/ /\ fn = "update_part_names_fixed"
        /\ ret2' = update_part_names_fixed(arg_after).arg
  /\ pc' = "returned_again"
  /\ UNCHANGED <<fn, arg, ret, arg_after, mainvars, drivervars, geminivars,
                 pipelinevars>>

NextFields ==
  \/ CallRemoveSpecifiedFields
  \/ CallUpdatePartNames
  \/ CallUpdatePartNamesFixed
  \/ CallAgain

SpecFields == InitFields /\ [][NextFields]_vars

(* ----------------- pipeline_runner.run_complete_pipeline --------------- *)

\* True / False as a value returned
Bool(b) == [t |-> "bool", v |-> b]

\* the methods run_complete_pipeline calls, in the order of its code
pipeline_steps ==
  <<"check_mongodb", "run_ingestion", "verify_data", "generate_embeddings",
    "export_data", "start_api_server", "start_dashboard",
    "print_final_report">>

\* what a step appends to self.steps_completed
completed_name(step) ==
  CASE step = "check_mongodb" -> "MongoDB Check"
    [] step = "run_ingestion" -> "Data Ingestion"
    [] step = "verify_data" -> "Data Verification"
    [] step = "generate_embeddings" -> "Embeddings Generation"
    [] step = "export_data" -> "Data Export"
    [] step = "start_api_server" -> "API Server"
    [] OTHER -> "Dashboard"

\* the head of what a step appends to self.errors
error_name(step) ==
  CASE step = "check_mongodb" -> "MongoDB"
    [] step = "run_ingestion" -> "Ingestion"
    [] step = "verify_data" -> "Verification"
    [] step = "generate_embeddings" -> "Embeddings"
    [] step = "export_data" -> "Export"
    [] step = "start_api_server" -> "API"
    [] OTHER -> "Dashboard"

\* how the body of a step can go: to its end, to its end with filings missing
\* (verify_data), to the ImportError of an optional module, or to another
\* exception
step_outcomes(step) ==
  CASE step = "verify_data" -> {"ok", "issues", "failed"}
    [] step \in {"generate_embeddings", "start_api_server", "start_dashboard"} ->
         {"ok", "unavailable", "failed"}
    [] step = "print_final_report" -> {"ok"}
    [] OTHER -> {"ok", "failed"}

\* the step reaches self.steps_completed.append(...)
step_completes(step, outcome) ==
  step # "print_final_report" /\ outcome \in {"ok", "issues"}

\* the truth of the value the step returns
step_returns(step, outcome) == outcome \in {"ok", "unavailable"}

\* the step is called: the skip_* and start_* arguments
step_called(step, opts) ==
  CASE step = "run_ingestion" -> ~opts.skip_ingestion
    [] step = "generate_embeddings" -> ~opts.skip_embeddings
    [] step = "export_data" -> ~opts.skip_export
    [] step = "start_api_server" -> opts.start_api
    [] step = "start_dashboard" -> opts.start_dashboard
    [] OTHER -> TRUE

\* as step_aborts, for ingestion handled like the steps after it
step_aborts_on_mongodb_only(step) == step = "check_mongodb"

\* the steps whose False makes run_complete_pipeline return False
step_aborts(step) == step \in {"check_mongodb", "run_ingestion"}

InitPipeline ==
  /\ fn = "run_complete_pipeline"
  /\ pc = pipeline_steps[1]
  /\ NoCall
  /\ NoMain
  /\ NoDriver
  /\ NoGemini
  /\ options \in [skip_ingestion : BOOLEAN, skip_embeddings : BOOLEAN,
                  skip_export : BOOLEAN, start_api : BOOLEAN,
                  start_dashboard : BOOLEAN]
  /\ steps_run = <<>>
  /\ steps_completed = <<>>
  /\ errors = <<>>
  /\ returned = None

\* the i-th step of run_complete_pipeline (check_mongodb, run_ingestion,
\* verify_data, generate_embeddings, export_data, start_api_server,
\* start_dashboard, print_final_report): the test of its argument, the call,
\* and what run_complete_pipeline does with the value returned
PipelineStep(i) ==
  LET step == pipeline_steps[i]
  IN  /\ fn = "run_complete_pipeline"
      /\ pc = step
      /\ IF ~step_called(step, options)
           THEN /\ pc' = pipeline_steps[i + 1]
                /\ UNCHANGED <<steps_run, steps_completed, errors, returned>>
           ELSE \E outcome \in step_outcomes(step) :
                  /\ steps_run' =
                       Append(steps_run, [step |-> step, outcome |-> outcome])
                  /\ steps_completed' =
                       IF step_completes(step, outcome)
                         THEN Append(steps_completed, completed_name(step))
                         ELSE steps_completed
                  /\ errors' = IF outcome = "failed"
                                 THEN Append(errors, error_name(step))
                                 ELSE errors
                  /\ IF step_aborts(step) /\ ~step_returns(step, outcome)
                       THEN pc' = "ended" /\ returned' = Bool(FALSE)
                       ELSE IF i = Len(pipeline_steps)
                         THEN pc' = "ended" /\ returned' = Bool(TRUE)
                         ELSE pc' = pipeline_steps[i + 1] /\ UNCHANGED returned
      /\ UNCHANGED <<callvars, mainvars, drivervars, geminivars, options>>

NextPipeline == \E i \in 1..Len(pipeline_steps) : PipelineStep(i)

SpecPipeline == InitPipeline /\ [][NextPipeline]_vars

(* ------------------------------ claims --------------------------------- *)

Returned(f) == pc = "returned" /\ fn = f

\* C1: the document normalizer is idempotent: transform_document applied to
\* its own output returns a document equal to that output.
Idempotence == pc = "returned_again" => PyEq(ret2, ret)

\* the section ids of a list of sections are pairwise different
UniqueIds(sections) ==
  \A i, j \in 1..Len(sections.v) :
    i # j => get(sections.v[i], "section_id") # get(sections.v[j], "section_id")

\* C2: no two sections of one part carry the same section_id, in the output of
\* transform_sections and in every part produced by transform_parts.
SectionIdsUnique ==
  /\ Returned("transform_sections") => UniqueIds(ret)
  /\ Returned("transform_parts") =>
       \A i \in 1..Len(ret.v) : UniqueIds(get(ret.v[i], "sections"))

\* C3: transform_sections and transform_parts return a list and never raise,
\* whatever the type of their argument.
Totality ==
  (Returned("transform_sections") \/ Returned("transform_parts")) => IsList(ret)

\* transform_parts has returned from a list that mixes records and non-records
TotalityWitness ==
  /\ Returned("transform_parts")
  /\ IsList(arg)
  /\ \E i, j \in 1..Len(arg.v) : ~IsDict(arg.v[i]) /\ IsDict(arg.v[j])
  /\ IsList(ret)

\* a list of records that each have the field `key`
RecordsWith(x, key) ==
  /\ IsList(x)
  /\ \A i \in 1..Len(x.v) : IsDict(x.v[i]) /\ HasKey(x.v[i], key)

\* C4: the output of transform_document has a list 'parts' of records that
\* each have a part_name and a list 'sections' of records that each have a
\* section_id.
CanonicalShape ==
  Returned("transform_document") =>
    /\ IsDict(ret)
    /\ HasKey(ret, "parts")
    /\ RecordsWith(get(ret, "parts"), "part_name")
    /\ \A i \in 1..Len(get(ret, "parts").v) :
         LET part == get(ret, "parts").v[i]
         IN  /\ HasKey(part, "sections")
             /\ RecordsWith(get(part, "sections"), "section_id")

\* a document has been normalized whose 'parts' is a list holding a record
\* with no part_name and with sections that had no section_id
CanonicalShapeWitness ==
  /\ Returned("transform_document")
  /\ IsList(get(arg, "parts"))
  /\ \E i \in 1..Len(get(arg, "parts").v) :
       LET part == get(arg, "parts").v[i]
       IN  /\ IsDict(part)
           /\ ~HasKey(part, "part_name")
           /\ IsList(get(part, "sections"))
           /\ ~RecordsWith(get(part, "sections"), "section_id")

\* C5: the keys of the output document are the keys of the input and 'parts',
\* and every key other than 'parts' has the value it had in the input.
TopLevelPassthrough ==
  Returned("transform_document") =>
    /\ Keys(ret) = Keys(arg) \cup {"parts"}
    /\ \A key \in Keys(arg) \ {"parts"} : get(ret, key) = get(arg, key)

\* a document with another top-level field and a mapping of parts has been
\* normalized
TopLevelPassthroughWitness ==
  /\ Returned("transform_document")
  /\ HasKey(arg, "company")
  /\ IsDict(get(arg, "parts"))
  /\ IsList(get(ret, "parts"))

\* C6: the call leaves its argument as it was, at every depth.
Purity == pc # "ready" => arg_after = arg

\* a document has been normalized in which a section of a list had no
\* section_id, and the output section has one
PurityWitness ==
  /\ Returned("transform_document")
  /\ IsList(get(arg, "parts"))
  /\ \E i \in 1..Len(get(arg, "parts").v) :
       LET part == get(arg, "parts").v[i]
       IN  /\ IsDict(part)
           /\ IsList(get(part, "sections"))
           /\ \E j \in 1..Len(get(part, "sections").v) :
                /\ IsDict(get(part, "sections").v[j])
                /\ ~HasKey(get(part, "sections").v[j], "section_id")
  /\ CanonicalShape

Records(x) == SelectSeq(x.v, IsDict)

MappingFormSectionIds ==
  (Returned("transform_sections") /\ IsDict(arg)) =>
    \A i \in 1..Len(arg.v) :
      IsDict(arg.v[i].v) =>
        /\ i <= Len(ret.v)
        /\ get(ret.v[i], "section_id") = Str(arg.v[i].k)
        /\ PyEq(dict_without(ret.v[i], "section_id"),
                dict_without(arg.v[i].v, "section_id"))

\* a mapping has been normalized in which a record value had a section_id
\* other than its key
MappingFormSectionIdsWitness ==
  /\ Returned("transform_sections")
  /\ IsDict(arg)
  /\ \E i \in 1..Len(arg.v) :
       /\ IsDict(arg.v[i].v)
       /\ HasKey(arg.v[i].v, "section_id")
       /\ get(arg.v[i].v, "section_id") # Str(arg.v[i].k)
       /\ get(ret.v[i], "section_id") = Str(arg.v[i].k)

\* C10: in the mapping form, a pair whose value is not a record yields the
\* section {section_id: key, value: value}, and the output has as many
\* sections as the mapping has keys.
MappingFormLosesNoEntry ==
  (Returned("transform_sections") /\ IsDict(arg)) =>
    /\ Len(ret.v) = Cardinality(Keys(arg))
    /\ \A i \in 1..Len(arg.v) :
         ~IsDict(arg.v[i].v) =>
           PyEq(ret.v[i],
                Dict(<<Entry("value", arg.v[i].v),
                       Entry("section_id", Str(arg.v[i].k))>>))

\* a mapping that mixes a record value and a non-record value has been
\* normalized
MappingFormLosesNoEntryWitness ==
  /\ Returned("transform_sections")
  /\ IsDict(arg)
  /\ \E i, j \in 1..Len(arg.v) : IsDict(arg.v[i].v) /\ ~IsDict(arg.v[j].v)
  /\ Len(ret.v) = Len(arg.v)

\* neither a list nor a mapping: absent (None from .get), null or another type
OtherShape(x) == ~IsList(x) /\ ~IsDict(x)

\* C11: 'parts', or a part's 'sections', that is absent, null or of a type
\* other than list and mapping is treated as empty: the functions return [],
\* the enclosing part gets sections = [], and nothing is raised.
ShapeRecovery ==
  /\ (Returned("transform_sections") /\ OtherShape(arg)) => ret = List(<<>>)
  /\ (Returned("transform_parts") /\ OtherShape(arg)) => ret = List(<<>>)
  /\ (Returned("transform_parts") /\ IsList(arg)) =>
       /\ IsList(ret)
       /\ \A i \in 1..Len(arg.v) :
            (IsDict(arg.v[i]) /\ OtherShape(get(arg.v[i], "sections"))) =>
              get(ret.v[CountDicts(arg.v, i)], "sections") = List(<<>>)
  /\ (Returned("transform_parts") /\ IsDict(arg)) =>
       /\ IsList(ret)
       /\ \A i \in 1..Len(arg.v) :
            (IsDict(arg.v[i].v) /\ OtherShape(get(arg.v[i].v, "sections"))) =>
              get(ret.v[i], "sections") = List(<<>>)
  /\ (Returned("transform_document") /\ OtherShape(get(arg, "parts"))) =>
       get(ret, "parts") = List(<<>>)

\* a list of parts has been normalized in which a record's 'sections' is a
\* string: the part is kept, with no sections
ShapeRecoveryWitness ==
  /\ Returned("transform_parts")
  /\ IsList(arg)
  /\ \E i \in 1..Len(arg.v) :
       /\ IsDict(arg.v[i])
       /\ get(arg.v[i], "sections") = Str("oops")
       /\ get(ret.v[CountDicts(arg.v, i)], "sections") = List(<<>>)

\* C12: in the list form of parts, a record with a truthy part_name keeps it,
\* a record whose part_name is absent or falsy gets "Part", and 'sections' is
\* transform_sections of the record's 'sections'.
ListFormPartNames ==
  (Returned("transform_parts") /\ IsList(arg)) =>
    \A i \in 1..Len(arg.v) :
      IsDict(arg.v[i]) =>
        LET part == arg.v[i]
            out  == ret.v[CountDicts(arg.v, i)]
        IN  /\ get(out, "part_name") =
                 IF Truthy(get(part, "part_name"))
                   THEN get(part, "part_name")
                   ELSE Str("Part")
            /\ PyEq(get(out, "sections"),
                    transform_sections(get(part, "sections")).ret)

\* a list of parts has been normalized in which one record has part_name 0
\* and another a non-empty name
ListFormPartNamesWitness ==
  /\ Returned("transform_parts")
  /\ IsList(arg)
  /\ \E i, j \in 1..Len(arg.v) :
       /\ IsDict(arg.v[i]) /\ IsDict(arg.v[j])
       /\ get(arg.v[i], "part_name") = Num(0)
       /\ get(arg.v[j], "part_name") = Str("P")
       /\ get(ret.v[CountDicts(arg.v, i)], "part_name") = Str("Part")
       /\ get(ret.v[CountDicts(arg.v, j)], "part_name") = Str("P")

\* what the end-to-end scenario normalizes to
EndToEndExpected ==
  Record(<<Entry("company_name", Str("Acme")),
           Entry("parts", List(<<
             Record(<<Entry("part_name", Str("Part_1")),
                      Entry("sections", List(<<
                        Record(<<Entry("content", Str("We make widgets.")),
                                 Entry("section_id", Str("business"))>>)>>))>>)>>))>>)

\* C13: in the mapping form of parts, a pair with a record value yields, at
\* its place in the insertion order, a part named value.part_name when that
\* is truthy and by the key otherwise, with sections
\* transform_sections(value.sections); the end-to-end document normalizes to
\* the expected document.
MappingFormPartNames ==
  /\ (Returned("transform_parts") /\ IsDict(arg)) =>
       \A i \in 1..Len(arg.v) :
         IsDict(arg.v[i].v) =>
           /\ i <= Len(ret.v)
           /\ get(ret.v[i], "part_name") =
                IF Truthy(get(arg.v[i].v, "part_name"))
                  THEN get(arg.v[i].v, "part_name")
                  ELSE Str(arg.v[i].k)
           /\ PyEq(get(ret.v[i], "sections"),
                   transform_sections(get(arg.v[i].v, "sections")).ret)
  /\ (Returned("transform_document") /\ arg = EndToEndDoc) =>
       PyEq(ret, EndToEndExpected)

\* a mapping of parts has been normalized in which one record has a name of
\* its own and another, with an empty name, is named by its key
MappingFormPartNamesWitness ==
  /\ Returned("transform_parts")
  /\ IsDict(arg)
  /\ \E i, j \in 1..Len(arg.v) :
       /\ IsDict(arg.v[i].v) /\ IsDict(arg.v[j].v)
       /\ get(arg.v[i].v, "part_name") = Str("P")
       /\ get(ret.v[i], "part_name") = Str("P")
       /\ get(arg.v[j].v, "part_name") = Str("")
       /\ get(ret.v[j], "part_name") = Str("Part_1")

\* C14: in the mapping form of parts, a pair whose value is not a record
\* yields exactly {part_name: key, value: value, sections: []}, and the output
\* has as many parts as the mapping has keys.
MappingFormPlaceholderParts ==
  (Returned("transform_parts") /\ IsDict(arg)) =>
    /\ Len(ret.v) = Cardinality(Keys(arg))
    /\ \A i \in 1..Len(arg.v) :
         ~IsDict(arg.v[i].v) =>
           PyEq(ret.v[i],
                Dict(<<Entry("sections", List(<<>>)),
                       Entry("value", arg.v[i].v),
                       Entry("part_name", Str(arg.v[i].k))>>))

\* the mapping {"Part_1": "raw text"} has been normalized to one part
MappingFormPlaceholderPartsWitness ==
  /\ Returned("transform_parts")
  /\ arg = Dict(<<Entry("Part_1", Str("raw text"))>>)
  /\ Len(ret.v) = 1
  /\ get(ret.v[1], "value") = Str("raw text")

\* `out` has the fields of `rec` and those of `added`, and the fields of `rec`
\* outside `added` have their values
Preserves(rec, out, added) ==
  /\ Keys(out) = Keys(rec) \cup added
  /\ \A key \in Keys(rec) \ added : get(out, key) = get(rec, key)

\* C15: a record part keeps every field other than 'sections' and part_name
\* and gains no field other than these two; a record section keeps every
\* field other than section_id and gains no field other than it.
FieldPreservation ==
  /\ (Returned("transform_sections") /\ IsList(arg)) =>
       \A i \in 1..Len(arg.v) :
         IsDict(arg.v[i]) =>
           Preserves(arg.v[i], ret.v[CountDicts(arg.v, i)], {"section_id"})
  /\ (Returned("transform_sections") /\ IsDict(arg)) =>
       \A i \in 1..Len(arg.v) :
         IsDict(arg.v[i].v) => Preserves(arg.v[i].v, ret.v[i], {"section_id"})
  /\ (Returned("transform_parts") /\ IsList(arg)) =>
       \A i \in 1..Len(arg.v) :
         IsDict(arg.v[i]) =>
           Preserves(arg.v[i], ret.v[CountDicts(arg.v, i)],
                     {"part_name", "sections"})
  /\ (Returned("transform_parts") /\ IsDict(arg)) =>
       \A i \in 1..Len(arg.v) :
         IsDict(arg.v[i].v) =>
           Preserves(arg.v[i].v, ret.v[i], {"part_name", "sections"})

\* a list of parts has been normalized in which a record carries a field of
\* its own, and a section a content
FieldPreservationWitness ==
  /\ Returned("transform_parts")
  /\ IsList(arg)
  /\ \E i \in 1..Len(arg.v) :
       /\ arg.v[i] = PartWithField
       /\ get(ret.v[CountDicts(arg.v, i)], "cik") = Num(7)
       /\ get(get(ret.v[CountDicts(arg.v, i)], "sections").v[1], "content") = Str("c")

\* main has run its transform step, to the end or to an exception
AfterTransform == fn = "main" /\ pc \in {"transformed", "written", "transform_failed"}

\* C16: a loaded list gives the list of transform_document(e) for its record
\* elements e, in order, the other elements dropped; a loaded mapping gives
\* the one normalized document, not a list.
BatchShape ==
  AfterTransform =>
    /\ IsList(data) =>
         /\ IsList(transformed)
         /\ Len(transformed.v) = Len(Records(data))
         /\ \A j \in 1..Len(transformed.v) :
              PyEq(transformed.v[j], transform_document(Records(data)[j]).ret)
    /\ IsDict(data) =>
         /\ IsDict(transformed)
         /\ PyEq(transformed, transform_document(data).ret)

\* a list of two different documents with a number between them has been
\* transformed to the two normalized documents
BatchShapeWitness ==
  /\ AfterTransform
  /\ data = List(<<EndToEndDoc, Num(42), ListFormDoc>>)
  /\ Len(transformed.v) = 2
  /\ PyEq(transformed.v[1], EndToEndExpected)
  /\ get(transformed.v[2], "company") = Str("Apple")

\* C17: the transform step of main does not raise, whatever value the loader
\* returned: a mapping, a list of anything, a scalar or null.
TransformNeverFails == fn = "main" => pc # "transform_failed"

\* some non-blank line of the text does not parse on its own
SomeLineFails(lines) ==
  \E i \in 1..Len(non_blank(lines)) : IsRaise(json_loads(<<non_blank(lines)[i]>>))

\* the records that the lines of the text that parse hold, in line order
RECURSIVE LineRecords(_)
LineRecords(lines) ==
  IF lines = <<>> THEN <<>>
  ELSE (IF lines[1].kind = "value" /\ IsDict(lines[1].v) THEN <<lines[1].v>> ELSE <<>>)
       \o LineRecords(Tail(lines))

\* main has ended: it wrote the output or an exception left it
MainEnded == fn = "main" /\ pc \in {"written", "load_failed", "transform_failed"}

\* C18: when one line of a newline-delimited input does not parse, the
\* documents of the other lines are still normalized and written.
FailureIsolation ==
  (MainEnded /\ is_probably_ndjson(text) /\ SomeLineFails(text)) =>
    /\ IsList(out_file)
    /\ Len(out_file.v) = Len(LineRecords(text))
    /\ \A j \in 1..Len(out_file.v) :
         PyEq(out_file.v[j], transform_document(LineRecords(text)[j]).ret)

\* more than one non-blank line, and each of the first ProbeLines parses
LooksLikeNdjson(lines) ==
  LET nb == non_blank(lines)
  IN  /\ Len(nb) > 1
      /\ \A i \in 1..Len(nb) : i <= ProbeLines => nb[i].kind = "value"

\* the loader has returned one value per non-blank line, in line order
LoadedLines ==
  /\ pc # "load_failed"
  /\ IsList(data)
  /\ Len(data.v) = Len(non_blank(text))
  /\ \A i \in 1..Len(data.v) :
       /\ non_blank(text)[i].kind = "value"
       /\ data.v[i] = non_blank(text)[i].v

\* the loader has parsed the whole text as one document
LoadedWhole ==
  IF IsRaise(json_loads(text)) THEN pc = "load_failed"
  ELSE pc # "load_failed" /\ data = json_loads(text)

RunsOf(file) == {k \in 1..Len(runs) : runs[k].file = file}

\* the success / failure lines printed for a file
ReportsOf(file) == {k \in 1..Len(reports) : reports[k].file = file}

\* C20: the drivers attempt each JSON file of the folder exactly once; a
\* failure on a file (read, parse, transform or write) is reported as one
\* failure for that file, and every later file is still processed.
DriversContinue ==
  fn \in DriverNames =>
    /\ pc # "crashed"
    /\ \A file \in 1..Len(files) :
         /\ Cardinality(RunsOf(file)) <= 1
         /\ \A k \in RunsOf(file) :
              /\ Cardinality(ReportsOf(file)) = 1
              /\ \A r \in ReportsOf(file) :
                   reports[r].status = "error" <=> runs[k].outcome # "ok"
         /\ pc = "done" => Cardinality(RunsOf(file)) = 1

\* a driver has ended after a failure on the first file and a success on
\* the second
DriversContinueWitness ==
  /\ fn \in DriverNames
  /\ pc = "done"
  /\ Len(files) >= 2
  /\ runs[1].outcome = "write_error"
  /\ runs[2].outcome = "ok"
  /\ reports[1].status = "error"
  /\ reports[2].status = "success"
  /\ Len(reports) = Len(files)

\* C21: every value process_section returns, from a response of the model or
\* from the defaults, is a mapping with the three keys part_name, item_name
\* and confidence that process_company_file reads.
ClassificationShape ==
  pc = "classified" =>
    /\ IsDict(gemini_result)
    /\ HasKey(gemini_result, "part_name")
    /\ HasKey(gemini_result, "item_name")
    /\ HasKey(gemini_result, "confidence")

\* a response that parses as JSON and passes the validation
Accepted(answer) ==
  /\ answer.kind = "text"
  /\ answer.fence # "plain"
  /\ answer.body # NotJson
  /\ IsDict(answer.body)
  /\ InStrings(get(answer.body, "part_name"), valid_parts)
  /\ InStrings(get(answer.body, "item_name"), valid_items)

\* the category of the section at hand, 'unknown' when it has none
CurrentCategory ==
  LET section == SectionAt(company_data, section_order(company_data)[at])
  IN  IF HasKey(section, "category") THEN Lookup(section, "category").v
      ELSE "unknown"

\* process_section has returned a part and an item of the valid ones
ValidClassification ==
  pc = "classified" =>
    /\ InStrings(get(gemini_result, "part_name"), valid_parts)
    /\ InStrings(get(gemini_result, "item_name"), valid_items)

\* process_section has returned the default of the current category
DefaultClassification ==
  /\ gemini_result = get_default_classification(CurrentCategory)
  /\ CurrentCategory \notin DOMAIN category_mapping =>
       /\ Lookup(gemini_result, "part_name").v =
            "Part I: Business and Risk Factors"
       /\ Lookup(gemini_result, "item_name").v = "Item 1. Business"
       /\ Lookup(gemini_result, "confidence").v = "low"

\* C22: process_section calls the model at most 3 times, never raises (a
\* section under classification goes on to be classified, never to the
\* failure of the file), and returns a classification with a valid part and a
\* valid item: a response that parses and passes the validation is returned
\* at once, one that does not is never returned, and after three of those the
\* default of the current category is returned, which for an unknown
\* category is Part I / Item 1. Business with confidence low.
BoundedRetry ==
  [][/\ calls' <= 3
     /\ ValidClassification'
     /\ pc = "classifying" =>
          /\ pc' \in {"classifying", "classified"}
          /\ calls' = calls + 1 /\ Accepted(response') =>
               pc' = "classified" /\ gemini_result' = response'.body
          /\ calls' = calls + 1 /\ ~Accepted(response') =>
               pc' = "classifying"
          /\ calls' = calls =>
               calls = 3 /\ pc' = "classified" /\ DefaultClassification']_vars

\* three refused responses for a section without category: the default
BoundedRetryWitness ==
  /\ pc = "classified"
  /\ calls = 3
  /\ ~Accepted(response)
  /\ CurrentCategory = "unknown"
  /\ gemini_result =
       Default("Part I: Business and Risk Factors", "Item 1. Business")

\* a section the loop skips: no content, or a content of spaces only
Skipped(section) ==
  \/ ~HasKey(section, "content")
  \/ /\ Lookup(section, "content").t = "str"
     /\ is_blank(Lookup(section, "content").v)

\* the fields the pass adds to a section
gemini_fields == {"gemini_part_name", "gemini_item_name", "gemini_confidence"}

\* position a comes before position b in the document
Before(a, b) ==
  \/ a[1] < b[1]
  \/ a[1] = b[1] /\ a[2] < b[2]
  \/ a[1] = b[1] /\ a[2] = b[2] /\ a[3] < b[3]

\* the positions of the sections of a company
Positions(company) ==
  {<<y, p, s>> : y \in 1..Len(company), p \in 1..MaxCompanySections,
                 s \in 1..MaxCompanySections} \cap
  {pos \in (1..Len(company)) \X (1..MaxCompanySections)
             \X (1..MaxCompanySections) :
     /\ pos[2] <= Len(company[pos[1]])
     /\ pos[3] <= Len(company[pos[1]][pos[2]])}

\* C23: the pass over a company file skips the sections without content and
\* gives them no gemini_* field, gives the three fields to every other
\* section, visits the sections in document order, writes the output file
\* only after every section is processed, and writes no output file when an
\* exception occurs.
ClassificationPass ==
  /\ \A i, j \in 1..Len(visited) : i < j => Before(visited[i], visited[j])
  /\ \A pos \in Positions(company_data) :
       LET section == SectionAt(company_data, pos)
       IN  /\ Skipped(section) => Keys(section) \cap gemini_fields = {}
           /\ pc = "saved" /\ ~Skipped(section) =>
                 gemini_fields \subseteq Keys(section)
  /\ output_file # "none" => pc = "saved"
  /\ pc = "failed" => output_file = "none"

\* some mapping of x, at any depth, has one of the three keys
RECURSIVE HasRemovedField(_)
HasRemovedField(x) ==
  CASE x.t = "dict" ->
         \/ Keys(x) \cap {"gemini_item_name", "gemini_part_name", "section_id"} # {}
         \/ \E i \in 1..Len(x.v) : HasRemovedField(x.v[i].v)
    [] x.t = "list" -> \E i \in 1..Len(x.v) : HasRemovedField(x.v[i])
    [] OTHER -> FALSE

\* after is before without the three keys: the other keys in their order,
\* with their values, at every depth
RECURSIVE OthersUnchanged(_, _)
OthersUnchanged(before, after) ==
  IF before.t # after.t THEN FALSE
  ELSE CASE before.t = "dict" ->
              LET Other(e) == e.k \notin {"gemini_item_name", "gemini_part_name",
                                          "section_id"}
                  others == SelectSeq(before.v, Other)
              IN  /\ Len(after.v) = Len(others)
                  /\ \A i \in 1..Len(others) :
                       /\ after.v[i].k = others[i].k
                       /\ OthersUnchanged(others[i].v, after.v[i].v)
         [] before.t = "list" ->
              /\ Len(after.v) = Len(before.v)
              /\ \A i \in 1..Len(before.v) :
                   OthersUnchanged(before.v[i], after.v[i])
         [] OTHER -> PyEq(before, after)

\* C24: after remove_specified_fields(obj) no mapping of obj, at any depth
\* through mappings and lists, has the key gemini_item_name, gemini_part_name
\* or section_id, every other key and value is as before, and a second call
\* changes nothing.
FieldRemoval ==
  fn = "remove_specified_fields" =>
    /\ pc \in {"returned", "returned_again"} =>
         /\ ~IsRaise(ret)
         /\ ~HasRemovedField(arg_after)
         /\ OthersUnchanged(arg, arg_after)
    /\ pc = "returned_again" => ret2 = arg_after

\* a section_id two lists deep, next to a field that stays, called twice
FieldRemovalWitness ==
  /\ fn = "remove_specified_fields"
  /\ pc = "returned_again"
  /\ arg = Dict(<<Entry("data", List(<<List(<<
             Dict(<<Entry("section_id", Str("text")),
                    Entry("content", Str("text"))>>)>>)>>))>>)
  /\ arg_after = Dict(<<Entry("data", List(<<List(<<
                   Dict(<<Entry("content", Str("text"))>>)>>)>>))>>)

\* the parts of a document: the items of every list under a key 'parts', at
\* any depth through mappings and lists, in document order
RECURSIVE PartsOf(_)
PartsOf(x) ==
  CASE x.t = "dict" ->
         LET own(e) == IF e.k = "parts" /\ IsList(e.v) THEN e.v.v ELSE <<>>
             per_entry == [i \in 1..Len(x.v) |-> own(x.v[i]) \o PartsOf(x.v[i].v)]
         IN  Concat(per_entry, Len(per_entry))
    [] x.t = "list" ->
         LET per_item == [i \in 1..Len(x.v) |-> PartsOf(x.v[i])]
         IN  Concat(per_item, Len(per_item))
    [] OTHER -> <<>>

\* a section of the part has a gemini_part_name
SomeSectionNamed(part) ==
  /\ HasKey(part, "sections")
  /\ IsList(Lookup(part, "sections"))
  /\ \E i \in 1..Len(Lookup(part, "sections").v) :
       LET section == Lookup(part, "sections").v[i]
       IN  IsDict(section) /\ HasKey(section, "gemini_part_name")

\* the part the claim expects of update_part_names: part_name from the first
\* section that has a gemini_part_name, everything else as it was
Renamed(part) ==
  IF IsDict(part) /\ HasKey(part, "part_name") /\ SomeSectionNamed(part)
    THEN LET sections == Lookup(part, "sections").v
             Named(i) == IsDict(sections[i]) /\ HasKey(sections[i], "gemini_part_name")
             first == CHOOSE i \in 1..Len(sections) :
                        Named(i) /\ \A j \in 1..(i - 1) : ~Named(j)
         IN  setitem(part, "part_name", Lookup(sections[first], "gemini_part_name"))
    ELSE part

\* C25: update_part_names gives every part that is a record with a part_name
\* and a list 'sections', at every nesting depth, the gemini_part_name of its
\* first section that has one; a part with no such section or without
\* part_name stays as it was, and no section changes.
PartRenaming ==
  Returned("update_part_names") =>
    /\ Len(PartsOf(arg_after)) = Len(PartsOf(arg))
    /\ \A i \in 1..Len(PartsOf(arg)) :
         PyEq(PartsOf(arg_after)[i], Renamed(PartsOf(arg)[i]))

\* the part has a part_name that starts with one of the four prefixes
Formatted(part) ==
  /\ IsDict(part)
  /\ HasKey(part, "part_name")
  /\ Lookup(part, "part_name").t = "str"
  /\ \E prefix \in {"Part I:", "Part II:", "Part III:", "Part IV:"} :
       startswith(Lookup(part, "part_name").v, prefix)

\* C26: update_part_names_fixed leaves every part whose part_name starts with
\* 'Part I:', 'Part II:', 'Part III:' or 'Part IV:' as it was, whatever the
\* gemini_part_name values of its sections.
FormattedPartsSkipped ==
  fn = "update_part_names_fixed" /\ pc \in {"returned", "returned_again"} =>
    \A i \in 1..Len(PartsOf(arg)) :
      Formatted(PartsOf(arg)[i]) => PyEq(PartsOf(arg_after)[i], PartsOf(arg)[i])

\* a formatted part whose first section has another gemini_part_name
FormattedPartsSkippedWitness ==
  /\ Returned("update_part_names_fixed")
  /\ ~IsRaise(ret)
  /\ arg = Dict(<<Entry("parts", List(<<
             Dict(<<Entry("part_name", Str("Part I: Overview")),
                    Entry("sections", List(<<
                      Dict(<<Entry("content", Str("text")),
                             Entry("gemini_part_name", Str("Gemini"))>>)>>))>>)>>))>>)
  /\ arg_after = arg

\* the name holds the key of the part with the given number: the Roman
\* numeral is read whole, so that Part_II is the key of part II and not of
\* part I
Designates(name, key) ==
  \E i \in 1..(Len(name) - Len(key) + 1) :
    /\ SubSeq(name, i, i + Len(key) - 1) = key
    /\ \/ key \in {"Part_1_", "Part_2_", "Part_3_", "Part_4_", "Part_5_"}
       \/ i + Len(key) > Len(name)
       \/ SubSeq(name, i + Len(key), i + Len(key)) \notin {"I", "V"}

\* the name the claim expects of the inference
Inferred(name) ==
  IF Designates(name, "Part_1_") \/ Designates(name, "Part_I")
    THEN "Part I: Business and Risk Factors"
  ELSE IF Designates(name, "Part_2_") \/ Designates(name, "Part_II")
    THEN "Part II: Financial Information"
  ELSE IF Designates(name, "Part_3_") \/ Designates(name, "Part_III")
    THEN "Part III: Governance"
  ELSE IF Designates(name, "Part_4_") \/ Designates(name, "Part_5_")
          \/ Designates(name, "Part_IV")
    THEN "Part IV: Exhibits and Schedules"
  ELSE name

\* C27: in update_part_names_fixed a part that is not formatted yet and whose
\* sections have no gemini_part_name is renamed from its name: Part_1_ or
\* Part_I gives 'Part I: Business and Risk Factors', Part_2_ or Part_II
\* 'Part II: Financial Information', Part_3_ or Part_III 'Part III:
\* Governance', Part_4_, Part_5_ or Part_IV 'Part IV: Exhibits and
\* Schedules'; any other name stays.
FallbackInference ==
  Returned("update_part_names_fixed") /\ ~IsRaise(ret) =>
    \A i \in 1..Len(PartsOf(arg)) :
      LET part == PartsOf(arg)[i]
          after == PartsOf(arg_after)[i]
      IN  /\ IsDict(part)
          /\ HasKey(part, "part_name")
          /\ Lookup(part, "part_name").t = "str"
          /\ ~Formatted(part)
          /\ ~SomeSectionNamed(part)
          => PyEq(after, setitem(part, "part_name",
                                 Str(Inferred(Lookup(part, "part_name").v))))

\* C28: when update_part_names_fixed completes on a document, a second call
\* changes no part_name and no other field of it.
FixIdempotence ==
  fn = "update_part_names_fixed" /\ pc = "returned_again" =>
    PyEq(ret2, arg_after)

\* the part has the given part_name
PartNamed(part, name) ==
  IsDict(part) /\ HasKey(part, "part_name")
    /\ PyEq(Lookup(part, "part_name"), Str(name))

\* a first call that renames a part by inference and one by its section, and
\* a second call
FixIdempotenceWitness ==
  /\ fn = "update_part_names_fixed"
  /\ pc = "returned_again"
  /\ Len(PartsOf(arg)) = 2
  /\ PartNamed(PartsOf(arg)[1], "Part_3_")
  /\ PartNamed(PartsOf(arg_after)[1], "Part III: Governance")
  /\ PartNamed(PartsOf(arg)[2], "Part_9")
  /\ PartNamed(PartsOf(arg_after)[2], "Part III: Governance")
  /\ PyEq(ret2, arg_after)

\* the steps the claim names, in its order
StepOrder ==
  <<"check_mongodb", "run_ingestion", "verify_data", "generate_embeddings",
    "export_data", "start_api_server", "start_dashboard",
    "print_final_report">>

\* the place of a step in that order
StepIndex(step) == CHOOSE i \in 1..Len(StepOrder) : StepOrder[i] = step

\* the step was not asked for
StepSkipped(step) ==
  \/ step = "run_ingestion" /\ options.skip_ingestion
  \/ step = "generate_embeddings" /\ options.skip_embeddings
  \/ step = "export_data" /\ options.skip_export
  \/ step = "start_api_server" /\ ~options.start_api
  \/ step = "start_dashboard" /\ ~options.start_dashboard

\* the i-th call is the MongoDB check or the ingestion, and it failed
Fatal(i) ==
  /\ steps_run[i].step \in {"check_mongodb", "run_ingestion"}
  /\ steps_run[i].outcome = "failed"

\* the steps that were called
StepsCalled == {steps_run[i].step : i \in 1..Len(steps_run)}

\* C29: run_complete_pipeline calls its steps in the order MongoDB check,
\* ingestion, verification, embeddings, export, API server, dashboard, final
\* report; a failed MongoDB check or a failed ingestion makes it return False
\* with no later step called; a failure of verification, embeddings or export
\* stops nothing: every later step that is not skipped is called and True is
\* returned; a skipped step is never in steps_completed.
PipelineOrder ==
  fn = "run_complete_pipeline" =>
    /\ \A i, j \in 1..Len(steps_run) :
         i < j => StepIndex(steps_run[i].step) < StepIndex(steps_run[j].step)
    /\ \A i \in 1..Len(steps_run) :
         Fatal(i) => /\ i = Len(steps_run)
                     /\ pc = "ended"
                     /\ returned = Bool(FALSE)
    /\ pc = "ended" /\ (\A i \in 1..Len(steps_run) : ~Fatal(i)) =>
         /\ returned = Bool(TRUE)
         /\ StepsCalled =
              {StepOrder[i] : i \in 1..Len(StepOrder)} \
                {step \in {"run_ingestion", "generate_embeddings", "export_data",
                           "start_api_server", "start_dashboard"} :
                   StepSkipped(step)}
    /\ pc # "ended" => returned = None
    /\ \A step \in {"run_ingestion", "generate_embeddings", "export_data",
                    "start_api_server", "start_dashboard"} :
         StepSkipped(step) =>
           /\ step \notin StepsCalled
           /\ \A i \in 1..Len(steps_completed) :
                steps_completed[i] # completed_name(step)

\* verification, embeddings and export all fail, and the run goes on to the
\* API server, the dashboard and the report, and returns True
PipelineOrderWitness ==
  /\ fn = "run_complete_pipeline"
  /\ pc = "ended"
  /\ returned = Bool(TRUE)
  /\ Len(steps_run) = 8
  /\ \A i \in 3..5 : steps_run[i].outcome = "failed"
  /\ steps_completed =
       <<"MongoDB Check", "Data Ingestion", "API Server", "Dashboard">>

\* C30: in the drivers that rewrite a file in place, a file whose processing
\* fails, at the read, the parse, the transform or the write, still holds its
\* original content.
FileUnchangedOnFailure ==
  fn \in DriverNames =>
    \A i \in 1..Len(runs) :
      runs[i].outcome # "ok" => files[runs[i].file] = "original"

====
